---- MODULE Spec2Model ----
(***************************************************************************)
(* Model of torchvision/prototype/models/efficientnet.py: the eight        *)
(* weights classes, the eight factories efficientnet_b0..efficientnet_b7   *)
(* and the shared helper _efficientnet.  One factory call is executed      *)
(* statement by statement; the calls it makes to code outside the file     *)
(* (warnings.warn, Weights.verify, _efficientnet_conf, EfficientNet,       *)
(* state_dict, load_state_dict) are logged with their arguments.           *)
(*                                                                         *)
(* Units: the float multipliers and dropout rates are kept in tenths       *)
(* (1.1 is 11), the accuracies, eps and momentum in thousandths            *)
(* (77.692 is 77692, eps 0.001 is 1, momentum 0.01 is 10).                 *)
(***************************************************************************)
EXTENDS Integers, Sequences, FiniteSets, TLC

\* Length of the category list the weights' metadata carries.
NumCategories == 3

\* Python's None, and an Optional value that is present.
None == <<>>

Variants == 0..7

----------------------------------------------------------------------------
\* Declarative configuration

IMAGENET_CATEGORIES == [i \in 1..NumCategories |-> i]

common_meta == [categories |-> IMAGENET_CATEGORIES, interpolation |-> "BICUBIC"]

Recipe == "https://github.com/pytorch/vision/tree/main/references/classification#efficientnet"

\* One WeightEntry of a Weights class.
WeightEntry(cls, name, url, crop, resize, size, acc1, acc5) ==
    [cls |-> cls, name |-> name, url |-> url,
     transforms |-> [preset |-> "ImageNetEval", crop_size |-> crop,
                     resize_size |-> resize, interpolation |-> "BICUBIC"],
     meta |-> [categories |-> common_meta.categories,
               interpolation |-> common_meta.interpolation,
               size |-> size, recipe |-> Recipe, acc1 |-> acc1, acc5 |-> acc5]]

EfficientNetB0Weights ==
    { WeightEntry("EfficientNetB0Weights", "ImageNet1K_TimmV1",
                  "https://download.pytorch.org/models/efficientnet_b0_rwightman-3dd342df.pth",
                  224, 256, <<224, 224>>, 77692, 93532) }

EfficientNetB1Weights ==
    { WeightEntry("EfficientNetB1Weights", "ImageNet1K_TimmV1",
                  "https://download.pytorch.org/models/efficientnet_b1_rwightman-533bc792.pth",
                  240, 256, <<240, 240>>, 78642, 94186) }

EfficientNetB2Weights_SizeSlip ==
    { WeightEntry("EfficientNetB2Weights", "ImageNet1K_TimmV1",
                  "https://download.pytorch.org/models/efficientnet_b2_rwightman-bcdf34b7.pth",
                  288, 288, <<260, 260>>, 80608, 95310) }

EfficientNetB2Weights ==
    { WeightEntry("EfficientNetB2Weights", "ImageNet1K_TimmV1",
                  "https://download.pytorch.org/models/efficientnet_b2_rwightman-bcdf34b7.pth",
                  288, 288, <<288, 288>>, 80608, 95310) }

EfficientNetB3Weights ==
    { WeightEntry("EfficientNetB3Weights", "ImageNet1K_TimmV1",
                  "https://download.pytorch.org/models/efficientnet_b3_rwightman-cf984f9c.pth",
                  300, 320, <<300, 300>>, 82008, 96054) }

EfficientNetB4Weights ==
    { WeightEntry("EfficientNetB4Weights", "ImageNet1K_TimmV1",
                  "https://download.pytorch.org/models/efficientnet_b4_rwightman-7eb33cd5.pth",
                  380, 384, <<380, 380>>, 83384, 96594) }

EfficientNetB5Weights ==
    { WeightEntry("EfficientNetB5Weights", "ImageNet1K_TFV1",
                  "https://download.pytorch.org/models/efficientnet_b5_lukemelas-b6417697.pth",
                  456, 456, <<456, 456>>, 83444, 96628) }

EfficientNetB6Weights ==
    { WeightEntry("EfficientNetB6Weights", "ImageNet1K_TFV1",
                  "https://download.pytorch.org/models/efficientnet_b6_lukemelas-c76e70fd.pth",
                  528, 528, <<528, 528>>, 84008, 96916) }

EfficientNetB7Weights ==
    { WeightEntry("EfficientNetB7Weights", "ImageNet1K_TFV1",
                  "https://download.pytorch.org/models/efficientnet_b7_lukemelas-dcc49843.pth",
                  600, 600, <<600, 600>>, 84122, 96908) }

\* The members of the weights class of variant v.
WeightsClass(v) ==
    CASE v = 0 -> EfficientNetB0Weights
      [] v = 1 -> EfficientNetB1Weights
      [] v = 2 -> EfficientNetB2Weights
      [] v = 3 -> EfficientNetB3Weights
      [] v = 4 -> EfficientNetB4Weights
      [] v = 5 -> EfficientNetB5Weights
      [] v = 6 -> EfficientNetB6Weights
      [] v = 7 -> EfficientNetB7Weights

AllEntries == UNION { WeightsClass(v) : v \in Variants }

\* A weights value is None or the reference <<class, member>> of an entry.
Ref(e) == <<e.cls, e.name>>

Entry(w) == CHOOSE e \in AllEntries : Ref(e) = w

\* The batch-norm layer B5, B6 and B7 pass to _efficientnet.
BatchNorm2d(eps, momentum) == [layer |-> "BatchNorm2d", eps |-> eps, momentum |-> momentum]

\* What is fixed in the body of each factory: its weights class, the entry
\* the deprecated flag selects, the multipliers, the dropout rate and the
\* keywords it passes to _efficientnet besides dropout, weights and progress.
efficientnet_b0 ==
    [cls |-> "EfficientNetB0Weights", default |-> <<"EfficientNetB0Weights", "ImageNet1K_TimmV1">>,
     width_mult |-> 10, depth_mult |-> 10, dropout |-> 2, extra |-> None]

efficientnet_b1_DepthSlip ==
    [cls |-> "EfficientNetB1Weights", default |-> <<"EfficientNetB1Weights", "ImageNet1K_TimmV1">>,
     width_mult |-> 10, depth_mult |-> 10, dropout |-> 2, extra |-> None]

efficientnet_b1 ==
    [cls |-> "EfficientNetB1Weights", default |-> <<"EfficientNetB1Weights", "ImageNet1K_TimmV1">>,
     width_mult |-> 10, depth_mult |-> 11, dropout |-> 2, extra |-> None]

efficientnet_b2 ==
    [cls |-> "EfficientNetB2Weights", default |-> <<"EfficientNetB2Weights", "ImageNet1K_TimmV1">>,
     width_mult |-> 11, depth_mult |-> 12, dropout |-> 3, extra |-> None]

efficientnet_b3 ==
    [cls |-> "EfficientNetB3Weights", default |-> <<"EfficientNetB3Weights", "ImageNet1K_TimmV1">>,
     width_mult |-> 12, depth_mult |-> 14, dropout |-> 3, extra |-> None]

efficientnet_b4 ==
    [cls |-> "EfficientNetB4Weights", default |-> <<"EfficientNetB4Weights", "ImageNet1K_TimmV1">>,
     width_mult |-> 14, depth_mult |-> 18, dropout |-> 4, extra |-> None]

efficientnet_b5 ==
    [cls |-> "EfficientNetB5Weights", default |-> <<"EfficientNetB5Weights", "ImageNet1K_TFV1">>,
     width_mult |-> 16, depth_mult |-> 22, dropout |-> 4,
     extra |-> ("norm_layer" :> BatchNorm2d(1, 10))]

efficientnet_b6 ==
    [cls |-> "EfficientNetB6Weights", default |-> <<"EfficientNetB6Weights", "ImageNet1K_TFV1">>,
     width_mult |-> 18, depth_mult |-> 26, dropout |-> 5,
     extra |-> ("norm_layer" :> BatchNorm2d(1, 10))]

efficientnet_b7 ==
    [cls |-> "EfficientNetB7Weights", default |-> <<"EfficientNetB7Weights", "ImageNet1K_TFV1">>,
     width_mult |-> 20, depth_mult |-> 31, dropout |-> 5,
     extra |-> ("norm_layer" :> BatchNorm2d(1, 10))]

Factory(v) ==
    CASE v = 0 -> efficientnet_b0
      [] v = 1 -> efficientnet_b1
      [] v = 2 -> efficientnet_b2
      [] v = 3 -> efficientnet_b3
      [] v = 4 -> efficientnet_b4
      [] v = 5 -> efficientnet_b5
      [] v = 6 -> efficientnet_b6
      [] v = 7 -> efficientnet_b7

----------------------------------------------------------------------------
\* Values a caller can pass

\* Values of the deprecated flag, and Python's truth value of each.
PretrainedValues == {"True", "False", "1", "0", "None"}

bool(x) == x \in {"True", "1"}

\* The keyword dictionaries a caller can pass: each key absent or present.
Opt(k, vals) == {None} \cup { k :> x : x \in vals }

CallerKwargs ==
    { a @@ b @@ c @@ d @@ e :
        a \in Opt("pretrained", PretrainedValues),
        b \in Opt("num_classes", {Len(IMAGENET_CATEGORIES), 10}),
        c \in Opt("norm_layer", {BatchNorm2d(10, 100)}),
        d \in Opt("stochastic_depth_prob", {"CallerProb"}),
        e \in Opt("dropout", {"CallerDropout"}) }

\* The weights a caller can pass to factory v: none, the variant's own
\* entry, or the entry of the next variant's class.
CallerWeights(v) == {None, Ref(CHOOSE x \in WeightsClass(v) : TRUE),
                     Ref(CHOOSE x \in WeightsClass((v + 1) % 8) : TRUE)}

----------------------------------------------------------------------------
\* Dictionary and call helpers

\* kwargs.pop(k): the dictionary left behind.
pop_KeepsKey(kw, k) == kw

pop(kw, k) == [x \in (DOMAIN kw) \ {k} |-> kw[x]]

\* kwargs[k] = x
setitem(kw, k, x) == (k :> x) @@ kw

\* f(a=..., **kwargs): a key given both explicitly and in kwargs is a
\* TypeError raised by the call itself, before the callee's body runs.
duplicate_keyword_LastWins(explicit, kw) == FALSE

duplicate_keyword(explicit, kw) == (explicit \cap DOMAIN kw) # {}

----------------------------------------------------------------------------
\* The statements of a factory and of _efficientnet

DeprecationMessage == "The argument pretrained is deprecated, please use weights instead."

\* The warnings the factory emits for the keyword dictionary kw.
deprecation_warnings_OnlyTruthy(kw) ==
    IF "pretrained" \in DOMAIN kw /\ bool(kw["pretrained"]) THEN <<DeprecationMessage>> ELSE <<>>

deprecation_warnings(kw) ==
    IF "pretrained" \in DOMAIN kw THEN <<DeprecationMessage>> ELSE <<>>

\* The value of the local 'weights' after the 'if "pretrained" in kwargs' block.
resolve_pretrained_KeepsExplicit(f, w, kw) ==
    IF "pretrained" \in DOMAIN kw /\ w = None
    THEN (IF bool(kw["pretrained"]) THEN f.default ELSE None)
    ELSE w

resolve_pretrained_FalsyKeeps(f, w, kw) ==
    IF "pretrained" \in DOMAIN kw /\ bool(kw["pretrained"]) THEN f.default ELSE w

resolve_pretrained(f, w, kw) ==
    IF "pretrained" \in DOMAIN kw
    THEN (IF bool(kw["pretrained"]) THEN f.default ELSE None)
    ELSE w

\* Weights.verify of class cls: None and the members of cls pass and are
\* returned as they are; a member of another class is rejected.
verify_ok(cls, w) == w = None \/ (w \in { Ref(e) : e \in AllEntries } /\ w[1] = cls)

\* _efficientnet_conf: the block configuration is a function of the two
\* multipliers; the other keywords are accepted and not used.
efficientnet_conf(width_mult, depth_mult, kw) ==
    [width_mult |-> width_mult, depth_mult |-> depth_mult]

\* The keyword dictionary _efficientnet passes to EfficientNet.
infer_num_classes_SetDefault(w, kw) ==
    IF w # None /\ "num_classes" \notin DOMAIN kw
    THEN setitem(kw, "num_classes", Len(Entry(w).meta.categories))
    ELSE kw

infer_num_classes(w, kw) ==
    IF w # None
    THEN setitem(kw, "num_classes", Len(Entry(w).meta.categories))
    ELSE kw

\* 'if weights is not None' before the checkpoint is fetched and loaded.
loads_checkpoint_Never(w) == FALSE

loads_checkpoint(w) == w # None

----------------------------------------------------------------------------
\* State

VARIABLES
    variant,        \* which factory is being called: efficientnet_b<variant>
    weightsArg,     \* the caller's 'weights' argument
    progress,       \* the caller's 'progress' argument
    callKwargs,     \* the caller's **kwargs
    pc,             \* the statement the call is at
    weights,        \* the factory's local 'weights'
    kwargs,         \* the factory's local 'kwargs' dictionary
    frame,          \* the arguments bound by the call of _efficientnet, if made
    warned,         \* messages passed to warnings.warn in this call
    confCalls,      \* calls of _efficientnet_conf made in this call
    models,         \* EfficientNet objects instantiated in this call
    fetched,        \* calls of weights.state_dict made in this call
    loaded,         \* calls of model.load_state_dict made in this call
    trace,          \* the steps taken in this call, in order
    error,          \* the exception that ended the call, if any
    result          \* what the call returned, if it returned

vars == <<variant, weightsArg, progress, callKwargs, pc, weights, kwargs,
          frame, warned, confCalls, models, fetched, loaded, trace, error, result>>

inputs == <<variant, weightsArg, progress, callKwargs>>

\* A factory is entered: its parameters are bound and nothing has run yet.
Init ==
    /\ variant \in Variants
    /\ weightsArg \in CallerWeights(variant)
    /\ progress \in BOOLEAN
    /\ callKwargs \in CallerKwargs
    /\ pc = "resolve"
    /\ weights = weightsArg
    /\ kwargs = callKwargs
    /\ frame = <<>>
    /\ warned = <<>>
    /\ confCalls = <<>>
    /\ models = <<>>
    /\ fetched = <<>>
    /\ loaded = <<>>
    /\ trace = <<>>
    /\ error = None
    /\ result = <<>>

\* if "pretrained" in kwargs: warnings.warn(...); weights = ... kwargs.pop("pretrained") ...
ResolvePretrained ==
    /\ pc = "resolve"
    /\ warned' = warned \o deprecation_warnings(kwargs)
    /\ weights' = resolve_pretrained(Factory(variant), weights, kwargs)
    /\ kwargs' = IF "pretrained" \in DOMAIN kwargs THEN pop(kwargs, "pretrained") ELSE kwargs
    /\ trace' = Append(trace, "resolve")
    /\ pc' = "verify"
    /\ UNCHANGED <<inputs, frame, confCalls, models, fetched, loaded, error, result>>

\* weights = EfficientNetB<v>Weights.verify(weights)
Verify ==
    /\ pc = "verify"
    /\ trace' = Append(trace, "verify")
    /\ IF verify_ok(Factory(variant).cls, weights)
       THEN pc' = "conf" /\ error' = error
       ELSE pc' = "raised" /\ error' = <<"TypeError", "verify">>
    /\ UNCHANGED <<inputs, weights, kwargs, frame, warned, confCalls, models,
                   fetched, loaded, result>>

\* inverted_residual_setting = _efficientnet_conf(width_mult=..., depth_mult=..., **kwargs)
BuildConf ==
    /\ pc = "conf"
    /\ confCalls' = Append(confCalls, [width_mult |-> Factory(variant).width_mult,
                                       depth_mult |-> Factory(variant).depth_mult,
                                       kwargs |-> kwargs])
    /\ trace' = Append(trace, "conf")
    /\ pc' = "call"
    /\ UNCHANGED <<inputs, weights, kwargs, frame, warned, models, fetched,
                   loaded, error, result>>

\* return _efficientnet(inverted_residual_setting, dropout=..., weights=weights,
\*                      progress=progress, [norm_layer=...,] **kwargs)
CallEfficientnet ==
    /\ pc = "call"
    /\ LET f == Factory(variant)
           c == confCalls[Len(confCalls)]
           explicit == {"inverted_residual_setting", "dropout", "weights", "progress"}
                           \cup DOMAIN f.extra
       IN IF duplicate_keyword(explicit, kwargs)
          THEN /\ pc' = "raised"
               /\ error' = <<"TypeError", "duplicate keyword">>
               /\ frame' = frame
          ELSE /\ pc' = "infer"
               /\ error' = error
               /\ frame' = <<[inverted_residual_setting |->
                                  efficientnet_conf(c.width_mult, c.depth_mult, c.kwargs),
                              dropout |-> f.dropout,
                              weights |-> weights,
                              progress |-> progress,
                              kwargs |-> kwargs @@ f.extra]>>
    /\ UNCHANGED <<inputs, weights, kwargs, warned, confCalls, models, fetched,
                   loaded, trace, result>>

\* The first two statements of _efficientnet in the other order.
InferNumClasses_AfterModel ==
    /\ pc = "infer"
    /\ models' = Append(models, [inverted_residual_setting |-> frame[1].inverted_residual_setting,
                                 dropout |-> frame[1].dropout,
                                 kwargs |-> frame[1].kwargs,
                                 state |-> None])
    /\ frame' = <<[frame[1] EXCEPT !.kwargs = infer_num_classes(frame[1].weights, @)]>>
    /\ trace' = IF frame[1].weights # None
                THEN trace \o <<"instantiate", "infer">>
                ELSE Append(trace, "instantiate")
    /\ pc' = "fetch"
    /\ UNCHANGED <<inputs, weights, kwargs, warned, confCalls, fetched, loaded, error, result>>

\* if weights is not None: kwargs["num_classes"] = len(weights.meta["categories"])
InferNumClasses ==
    /\ pc = "infer"
    /\ frame' = <<[frame[1] EXCEPT !.kwargs = infer_num_classes(frame[1].weights, @)]>>
    /\ trace' = IF frame[1].weights # None THEN Append(trace, "infer") ELSE trace
    /\ pc' = "instantiate"
    /\ UNCHANGED <<inputs, weights, kwargs, warned, confCalls, models, fetched,
                   loaded, error, result>>

\* model = EfficientNet(inverted_residual_setting, dropout, **kwargs)
Instantiate ==
    /\ pc = "instantiate"
    /\ models' = Append(models, [inverted_residual_setting |-> frame[1].inverted_residual_setting,
                                 dropout |-> frame[1].dropout,
                                 kwargs |-> frame[1].kwargs,
                                 state |-> None])
    /\ trace' = Append(trace, "instantiate")
    /\ pc' = "fetch"
    /\ UNCHANGED <<inputs, weights, kwargs, frame, warned, confCalls, fetched,
                   loaded, error, result>>

\* if weights is not None: ... weights.state_dict(progress=progress)
FetchStateDict ==
    /\ pc = "fetch"
    /\ IF loads_checkpoint(frame[1].weights)
       THEN /\ fetched' = Append(fetched, [weights |-> frame[1].weights,
                                           url |-> Entry(frame[1].weights).url,
                                           progress |-> frame[1].progress])
            /\ trace' = Append(trace, "fetch")
            /\ pc' = "load"
       ELSE /\ pc' = "return"
            /\ UNCHANGED <<fetched, trace>>
    /\ UNCHANGED <<inputs, weights, kwargs, frame, warned, confCalls, models,
                   loaded, error, result>>

\* weights.state_dict raises (the download fails): the exception leaves the call.
FetchFails ==
    /\ pc = "fetch"
    /\ loads_checkpoint(frame[1].weights)
    /\ fetched' = Append(fetched, [weights |-> frame[1].weights,
                                   url |-> Entry(frame[1].weights).url,
                                   progress |-> frame[1].progress])
    /\ trace' = Append(trace, "fetch")
    /\ pc' = "raised"
    /\ error' = <<"Exception", "state_dict">>
    /\ UNCHANGED <<inputs, weights, kwargs, frame, warned, confCalls, models,
                   loaded, result>>

\* model.load_state_dict(<the fetched checkpoint>)
LoadStateDict ==
    /\ pc = "load"
    /\ loaded' = Append(loaded, fetched[Len(fetched)].url)
    /\ models' = [models EXCEPT ![Len(models)].state = <<fetched[Len(fetched)].url>>]
    /\ trace' = Append(trace, "load")
    /\ pc' = "return"
    /\ UNCHANGED <<inputs, weights, kwargs, frame, warned, confCalls, fetched,
                   error, result>>

\* return model
Return ==
    /\ pc = "return"
    /\ result' = <<models[Len(models)]>>
    /\ pc' = "done"
    /\ UNCHANGED <<inputs, weights, kwargs, frame, warned, confCalls, models,
                   fetched, loaded, trace, error>>

Next ==
    \/ ResolvePretrained
    \/ Verify
    \/ BuildConf
    \/ CallEfficientnet
    \/ InferNumClasses
    \/ Instantiate
    \/ FetchStateDict
    \/ FetchFails
    \/ LoadStateDict
    \/ Return

Spec == Init /\ [][Next]_vars

----------------------------------------------------------------------------
\* Properties

\* The default entry of each variant, B0 first.
DefaultEntryOf ==
    << <<"EfficientNetB0Weights", "ImageNet1K_TimmV1">>,
       <<"EfficientNetB1Weights", "ImageNet1K_TimmV1">>,
       <<"EfficientNetB2Weights", "ImageNet1K_TimmV1">>,
       <<"EfficientNetB3Weights", "ImageNet1K_TimmV1">>,
       <<"EfficientNetB4Weights", "ImageNet1K_TimmV1">>,
       <<"EfficientNetB5Weights", "ImageNet1K_TFV1">>,
       <<"EfficientNetB6Weights", "ImageNet1K_TFV1">>,
       <<"EfficientNetB7Weights", "ImageNet1K_TFV1">> >>

HasFlag == "pretrained" \in DOMAIN callKwargs

FlagTruthy == HasFlag /\ callKwargs["pretrained"] \in {"True", "1"}

FlagFalsy == HasFlag /\ callKwargs["pretrained"] \in {"False", "0", "None"}

\* The weights the call is to use, by the rule of C1.
WeightsByRule ==
    IF HasFlag THEN (IF FlagTruthy THEN DefaultEntryOf[variant + 1] ELSE None)
    ELSE weightsArg

\* C1: once the flag is resolved, the weights every later step uses (the
\* factory's local, the argument bound by _efficientnet, the entry whose
\* checkpoint is fetched) are the variant's default entry if 'pretrained' is
\* present and truthy, None if present and falsy, and the caller's 'weights'
\* if absent.
C1_WeightsResolved ==
    /\ pc # "resolve" => weights = WeightsByRule
    /\ frame # <<>> => frame[1].weights = WeightsByRule
    /\ \A i \in 1..Len(fetched) : fetched[i].weights = WeightsByRule

C1_Witness ==
    /\ pc = "done"
    /\ variant = 5
    /\ FlagTruthy
    /\ weightsArg = None
    /\ fetched # <<>>
    /\ fetched[1].weights = <<"EfficientNetB5Weights", "ImageNet1K_TFV1">>

\* C2: every model is constructed with num_classes equal to the length of
\* the weights' category list when the weights are not None, whatever
\* num_classes the caller gave; with weights None it gets the caller's
\* num_classes, or none if the caller gave none.
C2_NumClasses ==
    \A i \in 1..Len(models) :
        LET kw == models[i].kwargs
        IN IF frame[1].weights # None
           THEN /\ "num_classes" \in DOMAIN kw
                /\ kw["num_classes"] = Len(Entry(frame[1].weights).meta.categories)
           ELSE /\ ("num_classes" \in DOMAIN kw) <=> ("num_classes" \in DOMAIN callKwargs)
                /\ "num_classes" \in DOMAIN kw => kw["num_classes"] = callKwargs["num_classes"]

C2_Witness ==
    /\ models # <<>>
    /\ frame[1].weights # None
    /\ "num_classes" \in DOMAIN callKwargs
    /\ callKwargs["num_classes"] # Len(IMAGENET_CATEGORIES)
    /\ models[1].kwargs["num_classes"] = Len(IMAGENET_CATEGORIES)

\* C3: a call that returns a model has instantiated exactly one model, and
\* has fetched and loaded the checkpoint exactly once if the resolved
\* weights are not None and not at all if they are None.
C3_LoadOnce ==
    pc = "done" =>
        /\ Len(models) = 1
        /\ result = <<models[1]>>
        /\ weights # None => Len(fetched) = 1 /\ Len(loaded) = 1
        /\ weights = None => Len(fetched) = 0 /\ Len(loaded) = 0

C3_Witness ==
    /\ pc = "done"
    /\ weights # None
    /\ Len(fetched) = 1
    /\ Len(loaded) = 1
    /\ result[1].state # None

\* C4: a call emits at most one warning, and once the flag is resolved it
\* has emitted one exactly if 'pretrained' is among the caller's keywords,
\* whatever its value.
C4_OneWarning ==
    /\ Len(warned) <= 1
    /\ pc # "resolve" => (Len(warned) = 1 <=> HasFlag)

C4_Witness ==
    /\ pc = "done"
    /\ FlagFalsy
    /\ weightsArg # None
    /\ Len(warned) = 1

\* The hyperparameters of each variant, B0 first: width and depth multiplier
\* and dropout in tenths.
HyperOf ==
    << <<10, 10, 2>>, <<10, 11, 2>>, <<11, 12, 3>>, <<12, 14, 3>>,
       <<14, 18, 4>>, <<16, 22, 4>>, <<18, 26, 5>>, <<20, 31, 5>> >>

\* C5: whatever weights and flags are passed, the configuration is built
\* with the variant's width and depth multiplier and the model with its
\* dropout; B5, B6 and B7 construct the model with BatchNorm2d of eps 0.001
\* and momentum 0.01, B0-B4 give the model a norm layer only if the caller
\* did; and the three hyperparameters never decrease from B0 to B7.
C5_Hyperparameters ==
    /\ \A i \in 1..Len(confCalls) :
          /\ confCalls[i].width_mult = HyperOf[variant + 1][1]
          /\ confCalls[i].depth_mult = HyperOf[variant + 1][2]
    /\ \A i \in 1..Len(models) :
          /\ models[i].inverted_residual_setting =
                 [width_mult |-> HyperOf[variant + 1][1], depth_mult |-> HyperOf[variant + 1][2]]
          /\ models[i].dropout = HyperOf[variant + 1][3]
          /\ IF variant >= 5
             THEN /\ "norm_layer" \in DOMAIN models[i].kwargs
                  /\ models[i].kwargs["norm_layer"] =
                         [layer |-> "BatchNorm2d", eps |-> 1, momentum |-> 10]
             ELSE ("norm_layer" \in DOMAIN models[i].kwargs)
                      <=> ("norm_layer" \in DOMAIN callKwargs)
    /\ \A v \in 0..6 :
          /\ Factory(v).width_mult <= Factory(v + 1).width_mult
          /\ Factory(v).depth_mult <= Factory(v + 1).depth_mult
          /\ Factory(v).dropout <= Factory(v + 1).dropout

C5_Witness ==
    /\ pc = "done"
    /\ variant = 1
    /\ HasFlag
    /\ weights # None
    /\ confCalls[1].depth_mult = 11
    /\ result[1].dropout = 2

\* The crop size of each variant's entry, B0 first.
CropSizeOf == <<224, 240, 288, 300, 380, 456, 528, 600>>

\* C6: every weights class has exactly one entry; its meta size is
\* (crop_size, crop_size) of its transform, its meta interpolation is the
\* transform's and is BICUBIC, its categories are the ImageNet list,
\* resize_size >= crop_size and acc@1 < acc@5; the crop sizes are 224, 240,
\* 288, 300, 380, 456, 528, 600, strictly increasing.  The entry a call
\* fetches is one of these.
C6_EntriesConsistent ==
    /\ \A v \in Variants :
          /\ Cardinality(WeightsClass(v)) = 1
          /\ \A e \in WeightsClass(v) :
                /\ e.meta.size = <<e.transforms.crop_size, e.transforms.crop_size>>
                /\ e.meta.interpolation = e.transforms.interpolation
                /\ e.transforms.interpolation = "BICUBIC"
                /\ e.meta.categories = IMAGENET_CATEGORIES
                /\ e.transforms.resize_size >= e.transforms.crop_size
                /\ e.meta.acc1 < e.meta.acc5
                /\ e.transforms.crop_size = CropSizeOf[v + 1]
    /\ \A v \in 0..6 : CropSizeOf[v + 1] < CropSizeOf[v + 2]
    /\ \A i \in 1..Len(fetched) :
          \E e \in WeightsClass(variant) :
              /\ Ref(e) = fetched[i].weights
              /\ e.url = fetched[i].url
              /\ e.meta.size = <<CropSizeOf[variant + 1], CropSizeOf[variant + 1]>>

C6_Witness ==
    /\ pc = "done"
    /\ variant = 2
    /\ loaded = <<"https://download.pytorch.org/models/efficientnet_b2_rwightman-bcdf34b7.pth">>
    /\ Entry(weights).meta.size = <<288, 288>>

\* The place of each step in the order of C7.
Rank(step) ==
    CASE step = "resolve" -> 1
      [] step = "verify" -> 2
      [] step = "conf" -> 3
      [] step = "infer" -> 4
      [] step = "instantiate" -> 5
      [] step = "fetch" -> 6
      [] step = "load" -> 7

\* C7: the steps of a call are taken in the order resolve, verify, conf,
\* infer, instantiate, fetch, load; a call that returns has taken all of
\* them (the last three of the weights only when they are not None); when
\* verification fails nothing is configured, instantiated or fetched; and a
\* checkpoint is never fetched before the model exists.
C7_StepOrder ==
    /\ \A i, j \in 1..Len(trace) : i < j => Rank(trace[i]) < Rank(trace[j])
    /\ pc = "done" =>
          trace = IF weights # None
                  THEN <<"resolve", "verify", "conf", "infer", "instantiate", "fetch", "load">>
                  ELSE <<"resolve", "verify", "conf", "instantiate">>
    /\ error = <<"TypeError", "verify">> =>
          confCalls = <<>> /\ models = <<>> /\ fetched = <<>> /\ loaded = <<>>
    /\ fetched # <<>> => models # <<>>
    /\ loaded # <<>> => fetched # <<>>

C7_Witness ==
    /\ pc = "done"
    /\ trace = <<"resolve", "verify", "conf", "infer", "instantiate", "fetch", "load">>

C7_WitnessVerifyFails ==
    /\ pc = "raised"
    /\ error = <<"TypeError", "verify">>
    /\ trace = <<"resolve", "verify">>

\* C8: when the caller passes both a non-None 'weights' and 'pretrained',
\* the flag decides: falsy, the weights are None, no checkpoint is fetched
\* or loaded and the model gets the caller's num_classes; truthy, the
\* weights are the variant's default entry.
C8_FlagWins ==
    (weightsArg # None /\ HasFlag /\ pc # "resolve") =>
        /\ FlagFalsy =>
              /\ weights = None
              /\ fetched = <<>> /\ loaded = <<>>
              /\ frame # <<>> => frame[1].weights = None
              /\ \A i \in 1..Len(models) :
                    /\ models[i].state = None
                    /\ ("num_classes" \in DOMAIN models[i].kwargs)
                           <=> ("num_classes" \in DOMAIN callKwargs)
                    /\ "num_classes" \in DOMAIN callKwargs =>
                           models[i].kwargs["num_classes"] = callKwargs["num_classes"]
        /\ FlagTruthy =>
              /\ weights = DefaultEntryOf[variant + 1]
              /\ frame # <<>> => frame[1].weights = DefaultEntryOf[variant + 1]
              /\ \A i \in 1..Len(fetched) : fetched[i].weights = DefaultEntryOf[variant + 1]

C8_Witness ==
    /\ pc = "done"
    /\ weightsArg # None
    /\ weightsArg[1] # Factory(variant).cls
    /\ FlagFalsy
    /\ "num_classes" \in DOMAIN callKwargs
    /\ result[1].state = None

\* C9: 'pretrained' is in no keyword dictionary passed on (to
\* _efficientnet_conf, to _efficientnet, to EfficientNet); every other
\* keyword of the caller reaches _efficientnet_conf and EfficientNet with
\* the caller's value, except num_classes to EfficientNet when the weights
\* are not None.
C9_KeywordsForwarded ==
    /\ \A i \in 1..Len(confCalls) :
          /\ "pretrained" \notin DOMAIN confCalls[i].kwargs
          /\ \A k \in (DOMAIN callKwargs) \ {"pretrained"} :
                k \in DOMAIN confCalls[i].kwargs /\ confCalls[i].kwargs[k] = callKwargs[k]
    /\ \A i \in 1..Len(frame) : "pretrained" \notin DOMAIN frame[i].kwargs
    /\ \A i \in 1..Len(models) :
          /\ "pretrained" \notin DOMAIN models[i].kwargs
          /\ \A k \in (DOMAIN callKwargs) \ {"pretrained"} :
                /\ k \in DOMAIN models[i].kwargs
                /\ (k = "num_classes" /\ frame[1].weights # None)
                       \/ models[i].kwargs[k] = callKwargs[k]

C9_Witness ==
    /\ pc = "done"
    /\ FlagTruthy
    /\ "stochastic_depth_prob" \in DOMAIN callKwargs
    /\ "norm_layer" \in DOMAIN callKwargs
    /\ "num_classes" \in DOMAIN callKwargs
    /\ result[1].kwargs["stochastic_depth_prob"] = "CallerProb"

\* C10: a call of efficientnet_b5, b6 or b7 with the keyword norm_layer
\* never instantiates a model, fetches a checkpoint or returns: if it gets
\* as far as the call of _efficientnet it ends there with the duplicate
\* keyword error; efficientnet_b0..b4 pass the caller's norm_layer to the
\* model.
C10_NormLayer ==
    "norm_layer" \in DOMAIN callKwargs =>
        IF variant >= 5
        THEN /\ models = <<>> /\ fetched = <<>> /\ loaded = <<>> /\ result = <<>>
             /\ frame = <<>>
             /\ pc \in {"resolve", "verify", "conf", "call", "raised"}
             /\ (pc = "raised" /\ confCalls # <<>>) =>
                    error = <<"TypeError", "duplicate keyword">>
        ELSE \A i \in 1..Len(models) :
                /\ "norm_layer" \in DOMAIN models[i].kwargs
                /\ models[i].kwargs["norm_layer"] = callKwargs["norm_layer"]

C10_Witness ==
    /\ pc = "raised"
    /\ variant = 6
    /\ "norm_layer" \in DOMAIN callKwargs
    /\ "dropout" \notin DOMAIN callKwargs
    /\ confCalls # <<>>
    /\ error = <<"TypeError", "duplicate keyword">>

C10_WitnessForwarded ==
    /\ pc = "done"
    /\ variant = 4
    /\ "norm_layer" \in DOMAIN callKwargs
    /\ result[1].kwargs["norm_layer"] = callKwargs["norm_layer"]

====
